---- MODULE Spec2Model ----
(***************************************************************************)
(* State-machine model of src/src/main.py: a one-shot pipeline that loads  *)
(* ./events.yaml, validates it, authenticates, resolves a calendar by      *)
(* display name and inserts the events one by one.                         *)
(*                                                                         *)
(* Python values are modelled as follows.  A dict is a function whose      *)
(* DOMAIN is its key set.  A string that the code only compares or prints  *)
(* is a TLA+ string; a string the code parses (the two time fields) is a   *)
(* sequence of one-character strings.  A value whose Python type matters   *)
(* is a record [type |-> ..., items |-> ...].  An exception is the name of *)
(* its class; NoExc stands for a normal return.                            *)
(***************************************************************************)
EXTENDS Integers, Sequences, FiniteSets, TLC

VARIABLES pc, yamlFile, data, calendar_name, timezone_str, tokenFile, creds,
          tokenWrites, authPath, service, calendars, calendar_id, i,
          requests, outcomes, printed, validation

vars == <<pc, yamlFile, data, calendar_name, timezone_str, tokenFile, creds,
          tokenWrites, authPath, service, calendars, calendar_id, i,
          requests, outcomes, printed, validation>>

(***************************************************************************)
(* Bounds of the model.                                                    *)
(***************************************************************************)
MaxEvents == 2
MaxCalendars == 2

(***************************************************************************)
(* Module-level constants of main.py.                                      *)
(***************************************************************************)
REQUIRED_EVENT_FIELDS == <<"title", "description", "event start time", "event end time">>

\* get_or_create_calendar reads the global TIMEZONE, which no line of the
\* module binds: the names bound at module level are YAML_FILE_PATH, SCOPES,
\* DATE_FORMAT and REQUIRED_EVENT_FIELDS.
ModuleGlobals == {"YAML_FILE_PATH", "SCOPES", "DATE_FORMAT", "REQUIRED_EVENT_FIELDS"}

None == "<None>"
NoExc == "<no exception>"

(***************************************************************************)
(* Exception classes and Python's except-clause matching.                  *)
(***************************************************************************)
ExcParent(c) ==
    CASE c = "FileNotFoundError"     -> "OSError"
      [] c = "OSError"               -> "Exception"
      [] c = "ValueError"            -> "Exception"
      [] c = "TypeError"             -> "Exception"
      [] c = "NameError"             -> "Exception"
      [] c = "ZoneInfoNotFoundError" -> "KeyError"
      [] c = "KeyError"              -> "LookupError"
      [] c = "LookupError"           -> "Exception"
      [] c = "HttpError"             -> "Error"
      [] c = "Error"                 -> "Exception"
      [] c = "RefreshError"          -> "Exception"
      [] c = "ServerNotFoundError"   -> "Exception"
      [] c = "Exception"             -> "BaseException"
      [] OTHER                       -> "object"

RECURSIVE IsInstance(_, _)
IsInstance(c, cls) ==
    IF c = cls THEN TRUE
    ELSE IF c \in {"object", "BaseException"} THEN FALSE
    ELSE \E parent \in {ExcParent(c)} : IsInstance(parent, cls)

(***************************************************************************)
(* datetime.datetime.strptime(s, DATE_FORMAT), DATE_FORMAT being           *)
(* '%Y/%m/%d %I:%M %p'.  The format compiles to the regular expression     *)
(*   (\d\d\d\d)/(1[0-2]|0[1-9]|[1-9])/(3[01]|[12]\d|0[1-9]|[1-9]| [1-9])   *)
(*   \s+(1[0-2]|0[1-9]|[1-9]):([0-5]\d|\d)\s+(am|pm)       (ignoring case) *)
(* which must consume the whole string, after which the date must exist.   *)
(* Every numeric group is followed by a literal or by white space, so the  *)
(* leftmost alternative that matches is the only one that can.             *)
(***************************************************************************)
Digits == <<"0", "1", "2", "3", "4", "5", "6", "7", "8", "9">>
IsDigit(c) == \E k \in 1..10 : Digits[k] = c
DigitVal(c) == (CHOOSE k \in 1..10 : Digits[k] = c) - 1
IsSpace(c) == c \in {" ", "\t"}

At(s, p) == IF p \in 1..Len(s) THEN s[p] ELSE "<eos>"
Num2(s, p) == DigitVal(At(s, p)) * 10 + DigitVal(At(s, p + 1))

\* Length matched at p by 1[0-2]|0[1-9]|[1-9] (the groups of %m and %I).
LenMonthOrHour(s, p) ==
    IF At(s, p) = "1" /\ At(s, p + 1) \in {"0", "1", "2"} THEN 2
    ELSE IF At(s, p) = "0" /\ IsDigit(At(s, p + 1)) /\ At(s, p + 1) # "0" THEN 2
    ELSE IF IsDigit(At(s, p)) /\ At(s, p) # "0" THEN 1
    ELSE 0

\* Length matched at p by 3[01]|[12]\d|0[1-9]|[1-9]| [1-9] (the group of %d).
LenDay(s, p) ==
    IF At(s, p) = "3" /\ At(s, p + 1) \in {"0", "1"} THEN 2
    ELSE IF At(s, p) \in {"1", "2"} /\ IsDigit(At(s, p + 1)) THEN 2
    ELSE IF At(s, p) = "0" /\ IsDigit(At(s, p + 1)) /\ At(s, p + 1) # "0" THEN 2
    ELSE IF IsDigit(At(s, p)) /\ At(s, p) # "0" THEN 1
    ELSE IF At(s, p) = " " /\ IsDigit(At(s, p + 1)) /\ At(s, p + 1) # "0" THEN 2
    ELSE 0

\* Length matched at p by [0-5]\d|\d (the group of %M).
LenMinute(s, p) ==
    IF At(s, p) \in {"0", "1", "2", "3", "4", "5"} /\ IsDigit(At(s, p + 1)) THEN 2
    ELSE IF IsDigit(At(s, p)) THEN 1
    ELSE 0

\* Value of the digits of s in p..p+n-1, a leading blank counting as nothing.
NumAt(s, p, n) ==
    IF n = 2 THEN (IF At(s, p) = " " THEN DigitVal(At(s, p + 1)) ELSE Num2(s, p))
    ELSE DigitVal(At(s, p))

\* Length of the run of white space that starts at p (\s+ needs at least 1).
RECURSIVE LenSpaces(_, _)
LenSpaces(s, p) == IF IsSpace(At(s, p)) THEN 1 + LenSpaces(s, p + 1) ELSE 0

\* 1 for am, 2 for pm, 0 for neither, at p.
AmPm(s, p) ==
    IF At(s, p + 1) \notin {"m", "M"} THEN 0
    ELSE IF At(s, p) \in {"a", "A"} THEN 1
    ELSE IF At(s, p) \in {"p", "P"} THEN 2
    ELSE 0

IsLeap(y) == (y % 4 = 0) /\ ((y % 100 # 0) \/ (y % 400 = 0))
DaysInMonth(y, m) ==
    IF m = 2 THEN (IF IsLeap(y) THEN 29 ELSE 28)
    ELSE IF m \in {4, 6, 9, 11} THEN 30
    ELSE 31

StrptimeFail == [ok |-> FALSE, year |-> 0, month |-> 0, day |-> 0, hour |-> 0, minute |-> 0]

\* The groups are matched left to right; p is the place the next one starts.
\* Each step hands the next one values bound by a singleton set, so that a
\* place or a number is computed once.
MakeDatetime(Y, m, d, H, M) ==
    IF Y < 1 \/ d > DaysInMonth(Y, m) THEN StrptimeFail
    ELSE [ok |-> TRUE, year |-> Y, month |-> m, day |-> d, hour |-> H, minute |-> M]

MatchAmPm(s, p, Y, m, d, I, M) ==
    LET ap == AmPm(s, p)
    IN  IF ap = 0 \/ Len(s) # p + 1          \* else unconverted data remains
        THEN StrptimeFail
        ELSE IF ap = 1 THEN MakeDatetime(Y, m, d, IF I = 12 THEN 0 ELSE I, M)
        ELSE MakeDatetime(Y, m, d, IF I = 12 THEN 12 ELSE I + 12, M)

MatchMinute(s, p, Y, m, d, I) ==
    CHOOSE r \in {IF n > 0 /\ w > 0
                  THEN CHOOSE t \in {MatchAmPm(s, q, Y, m, d, I, M) :
                                        q \in {p + n + w}, M \in {NumAt(s, p, n)}} : TRUE
                  ELSE StrptimeFail :
                  n \in {LenMinute(s, p)}, w \in {LenSpaces(s, p + LenMinute(s, p))}} : TRUE

MatchHour(s, p, Y, m, d) ==
    CHOOSE r \in {IF n > 0 /\ At(s, p + n) = ":"
                  THEN CHOOSE t \in {MatchMinute(s, q, Y, m, d, I) :
                                        q \in {p + n + 1}, I \in {NumAt(s, p, n)}} : TRUE
                  ELSE StrptimeFail :
                  n \in {LenMonthOrHour(s, p)}} : TRUE

MatchDay(s, p, Y, m) ==
    CHOOSE r \in {IF n > 0 /\ w > 0
                  THEN CHOOSE t \in {MatchHour(s, q, Y, m, d) :
                                        q \in {p + n + w}, d \in {NumAt(s, p, n)}} : TRUE
                  ELSE StrptimeFail :
                  n \in {LenDay(s, p)}, w \in {LenSpaces(s, p + LenDay(s, p))}} : TRUE

MatchMonth(s, p, Y) ==
    CHOOSE r \in {IF n > 0 /\ At(s, p + n) = "/"
                  THEN CHOOSE t \in {MatchDay(s, q, Y, m) :
                                        q \in {p + n + 1}, m \in {NumAt(s, p, n)}} : TRUE
                  ELSE StrptimeFail :
                  n \in {LenMonthOrHour(s, p)}} : TRUE

strptime(s) ==
    IF (\A p \in 1..4 : IsDigit(At(s, p))) /\ At(s, 5) = "/"
    THEN CHOOSE r \in {MatchMonth(s, 6, Y) : Y \in {Num2(s, 1) * 100 + Num2(s, 3)}} : TRUE
    ELSE StrptimeFail

(***************************************************************************)
(* The inputs of a run: the content of ./events.yaml, the content of       *)
(* token.json, and what the provider answers.                              *)
(***************************************************************************)
\* "2024/01/10 09:00 AM"
T_0900AM == <<"2", "0", "2", "4", "/", "0", "1", "/", "1", "0", " ", "0", "9", ":", "0", "0", " ", "A", "M">>
\* "2024/1/10 12:15 pm"
T_1215pm == <<"2", "0", "2", "4", "/", "1", "/", "1", "0", " ", "1", "2", ":", "1", "5", " ", "p", "m">>
\* "2024-01-10 09:00 AM": the separators are not those of DATE_FORMAT
T_dashes == <<"2", "0", "2", "4", "-", "0", "1", "-", "1", "0", " ", "0", "9", ":", "0", "0", " ", "A", "M">>
\* "2024/02/30 09:00 AM": matches the pattern, but there is no such day
T_feb30 == <<"2", "0", "2", "4", "/", "0", "2", "/", "3", "0", " ", "0", "9", ":", "0", "0", " ", "A", "M">>
\* "2024/01/10 13:00 PM": %I takes 1..12
T_13PM == <<"2", "0", "2", "4", "/", "0", "1", "/", "1", "0", " ", "1", "3", ":", "0", "0", " ", "P", "M">>

PyList(xs) == [type |-> "list", items |-> xs]
PyInt == [type |-> "int", items |-> <<>>]
PyStr == [type |-> "str", items |-> <<>>]
PyNone == [type |-> "NoneType", v |-> <<>>]
PyDict(f) == [type |-> "dict", v |-> f]

EventDict(keys, title, description, start, end, attendees) ==
    [k \in keys |-> CASE k = "title" -> title
                      [] k = "description" -> description
                      [] k = "event start time" -> start
                      [] k = "event end time" -> end
                      [] k = "attendees" -> attendees]

RequiredKeys == {REQUIRED_EVENT_FIELDS[k] : k \in 1..Len(REQUIRED_EVENT_FIELDS)}

E_standup == EventDict(RequiredKeys \cup {"attendees"}, "Standup", "daily",
                       T_0900AM, T_1215pm, PyList(<<"a@example.com", "b@example.com">>))
E_retro == EventDict(RequiredKeys, "Retro", "<b>sprint</b>", T_1215pm, T_0900AM, PyNone)
\* attendees: 5 passes validation and cannot be iterated at submission time
E_attendees5 == EventDict(RequiredKeys \cup {"attendees"}, "Review", "weekly",
                          T_0900AM, T_1215pm, PyInt)
\* lacks title and end time; its start time would not parse either
E_noTitleNoEnd == EventDict({"description", "event start time"}, "", "x", T_dashes, T_dashes, PyNone)
E_badStart == EventDict(RequiredKeys, "Kickoff", "x", T_dashes, T_13PM, PyNone)
E_badEnd == EventDict(RequiredKeys, "Demo", "x", T_0900AM, T_feb30, PyNone)

EventSamples == {E_standup, E_retro, E_attendees5, E_noTitleNoEnd, E_badStart, E_badEnd}

SeqsUpTo(S, n) == UNION {[1..k -> S] : k \in 0..n}

EventsValues == {PyList(es) : es \in SeqsUpTo(EventSamples, MaxEvents)} \cup {PyStr}

Zones == {"America/Chicago", "Mars/Olympus"}
\* The zones the tz database knows, among those above.
KnownZones == {"America/Chicago", "America/New_York"}

TopKeys == {"calendar_name", "timezone", "events"}

ConfigDict(keys, tz, ev) ==
    PyDict([k \in keys |-> CASE k = "calendar_name" -> "Team"
                             [] k = "timezone" -> tz
                             [] k = "events" -> ev])

\* What yaml.safe_load can return for the file: a mapping, or None for an
\* empty document.
Documents == {ConfigDict(keys, tz, ev) : keys \in SUBSET TopKeys, tz \in Zones, ev \in EventsValues}
             \cup {PyNone}

NoFile == [exists |-> FALSE, content |-> PyNone]
YamlFiles == {[exists |-> TRUE, content |-> d] : d \in Documents} \cup {NoFile}

(***************************************************************************)
(* load_yaml_file, validate_event, validate_yaml_data.                     *)
(***************************************************************************)
\* The text of an error, with the values the f-string puts into it.
Message(text, fields, field, title) ==
    [text |-> text, fields |-> fields, field |-> field, title |-> title]
NoMessage == Message("", <<>>, "", "")

load_yaml_file(file) ==
    IF ~file.exists
    THEN [exc |-> "FileNotFoundError",
          msg |-> Message("YAML file ./events.yaml does not exist.", <<>>, "", ""),
          value |-> PyNone]
    ELSE [exc |-> NoExc, msg |-> NoMessage, value |-> file.content]

\* A call of validate_event: what it raised, and the fields it handed to
\* strptime, in order.
Raised(exc, msg, parsed) == [exc |-> exc, msg |-> msg, parsed |-> parsed]
Returned == Raised(NoExc, NoMessage, <<>>)

validate_event_first_missing(event) ==
    LET missing_fields == SelectSeq(REQUIRED_EVENT_FIELDS, LAMBDA field : field \notin DOMAIN event)
    IN  IF missing_fields # <<>>
        THEN Raised("ValueError",
                    Message("Event is missing the following required fields",
                            SubSeq(missing_fields, 1, 1), "", ""),
                    <<>>)
        ELSE IF ~strptime(event["event start time"]).ok
        THEN Raised("ValueError",
                    Message("Invalid format", <<>>, "event start time", event["title"]),
                    <<"event start time">>)
        ELSE IF ~strptime(event["event end time"]).ok
        THEN Raised("ValueError",
                    Message("Invalid format", <<>>, "event end time", event["title"]),
                    <<"event start time", "event end time">>)
        ELSE Raised(NoExc, NoMessage, <<"event start time", "event end time">>)

validate_event(event) ==
    LET missing_fields == SelectSeq(REQUIRED_EVENT_FIELDS, LAMBDA field : field \notin DOMAIN event)
    IN  IF missing_fields # <<>>
        THEN Raised("ValueError",
                    Message("Event is missing the following required fields", missing_fields, "", ""),
                    <<>>)
        ELSE IF ~strptime(event["event start time"]).ok
        THEN Raised("ValueError",
                    Message("Invalid format", <<>>, "event start time", event["title"]),
                    <<"event start time">>)
        ELSE IF ~strptime(event["event end time"]).ok
        THEN Raised("ValueError",
                    Message("Invalid format", <<>>, "event end time", event["title"]),
                    <<"event start time", "event end time">>)
        ELSE Raised(NoExc, NoMessage, <<"event start time", "event end time">>)

\* The loop of validate_yaml_data from event k on: the first call that raises
\* ends it.  The result names the event of the last call made (0: none).
validate_events_first_only(events, k) ==
    IF k > Len(events) THEN [call |-> Returned, at |-> 0]
    ELSE [call |-> validate_event(events[k]), at |-> k]

RECURSIVE validate_events(_, _)
validate_events(events, k) ==
    IF k > Len(events) THEN [call |-> Returned, at |-> k - 1]
    ELSE LET r == validate_event(events[k])
         IN  IF r.exc # NoExc THEN [call |-> r, at |-> k]
             ELSE validate_events(events, k + 1)

validate_yaml_data(d) ==
    IF d.type # "dict"
    THEN [exc |-> "TypeError", msg |-> Message("argument of type 'NoneType' is not iterable", <<>>, "", ""),
          call |-> Returned, at |-> 0]
    ELSE IF "calendar_name" \notin DOMAIN d.v
    THEN [exc |-> "ValueError", msg |-> Message("Missing 'calendar_name' in YAML file.", <<>>, "", ""),
          call |-> Returned, at |-> 0]
    ELSE IF "timezone" \notin DOMAIN d.v
    THEN [exc |-> "ValueError", msg |-> Message("Missing 'timezone' in YAML file.", <<>>, "", ""),
          call |-> Returned, at |-> 0]
    ELSE IF "events" \notin DOMAIN d.v \/ d.v["events"].type # "list"
    THEN [exc |-> "ValueError", msg |-> Message("Missing or invalid 'events' list in YAML file.", <<>>, "", ""),
          call |-> Returned, at |-> 0]
    ELSE LET r == validate_events(d.v["events"].items, 1)
         IN  [exc |-> r.call.exc, msg |-> r.call.msg, call |-> r.call, at |-> r.at]

\* dict.get(key, default)
get(d, key, default) == IF key \in DOMAIN d.v THEN d.v[key] ELSE default

(***************************************************************************)
(* authenticate_google.                                                    *)
(***************************************************************************)
\* A Credentials object: whether it holds an access token, whether that
\* token is past its expiry, whether it holds a refresh token, and where it
\* came from.
Credentials(token, expired, refresh_token, origin) ==
    [token |-> token, expired |-> expired, refresh_token |-> refresh_token, origin |-> origin]
NoCreds == Credentials(FALSE, FALSE, FALSE, "<None>")

\* Credentials.valid
valid(c) == c.token /\ ~c.expired

TokenFiles ==
    {[exists |-> FALSE, content |-> NoCreds]} \cup
    {[exists |-> TRUE, content |-> c] :
        c \in {Credentials(TRUE, FALSE, TRUE, "token.json"),     \* usable as it is
               Credentials(TRUE, TRUE, TRUE, "token.json"),      \* expired, refreshable
               Credentials(TRUE, TRUE, FALSE, "token.json")}}    \* expired, no refresh token

RefreshResponses == {NoExc, "RefreshError"}
\* InstalledAppFlow: credentials.json may be missing.
FlowResponses == {NoExc, "FileNotFoundError"}

\* with open('token.json', 'w') as token: token.write(creds.to_json())
write_token_skipped(file, c) == [file |-> file, writes |-> 0]

write_token(file, c) == [file |-> [exists |-> TRUE, content |-> c], writes |-> 1]

authenticate_google(file, refreshResp, flowResp) ==
    LET loaded == IF file.exists THEN file.content ELSE NoCreds
        failed(exc, path) == [exc |-> exc, creds |-> loaded, file |-> file, writes |-> 0, path |-> path]
        saved(c, path) == LET w == write_token(file, c)
                          IN  [exc |-> NoExc, creds |-> c, file |-> w.file, writes |-> w.writes, path |-> path]
    IN  IF loaded # NoCreds /\ valid(loaded)
        THEN [exc |-> NoExc, creds |-> loaded, file |-> file, writes |-> 0, path |-> "loaded"]
        ELSE IF loaded # NoCreds /\ loaded.expired /\ loaded.refresh_token
        THEN IF refreshResp # NoExc THEN failed(refreshResp, "refresh")
             ELSE saved(Credentials(TRUE, FALSE, TRUE, "refreshed"), "refresh")
        ELSE IF flowResp # NoExc THEN failed(flowResp, "flow")
             ELSE saved(Credentials(TRUE, FALSE, TRUE, "run_local_server"), "flow")

NoService == [credentials |-> NoCreds]
build(c) == [credentials |-> c]

(***************************************************************************)
(* get_or_create_calendar.                                                 *)
(***************************************************************************)
Request(op, calendarId, body, index) ==
    [op |-> op, calendarId |-> calendarId, body |-> body, index |-> index]
Line(text, detail) == [text |-> text, detail |-> detail]

CalendarSamples == {[summary |-> "Team", id |-> "c1"],
                    [summary |-> "Team", id |-> "c2"],
                    [summary |-> "team", id |-> "c3"]}

ListResponses ==
    {[exc |-> e, items |-> <<>>] : e \in {"HttpError", "ServerNotFoundError"}} \cup
    {[exc |-> NoExc, items |-> cs] : cs \in SeqsUpTo(CalendarSamples, MaxCalendars)}

InsertResponses == {[exc |-> NoExc, id |-> "new1"], [exc |-> "HttpError", id |-> None]}

\* for calendar in calendars['items']: if calendar['summary'] == calendar_name:
\* the place of the entry the loop returns from, 0 if it ends without one.
MatchIndexLast(items, name) ==
    IF \E k \in 1..Len(items) : items[k].summary = name
    THEN CHOOSE k \in 1..Len(items) :
            /\ items[k].summary = name
            /\ \A j \in (k + 1)..Len(items) : items[j].summary # name
    ELSE 0

MatchIndex(items, name) ==
    IF \E k \in 1..Len(items) : items[k].summary = name
    THEN CHOOSE k \in 1..Len(items) :
            /\ items[k].summary = name
            /\ \A j \in 1..(k - 1) : items[j].summary # name
    ELSE 0

get_or_create_calendar(name, listResp, insertResp) ==
    LET list == Request("calendarList.list", None, <<>>, 0)
        insert == Request("calendars.insert", None, [summary |-> name, timeZone |-> "TIMEZONE"], 0)
        except(exc, reqs) ==
            IF IsInstance(exc, "HttpError")
            THEN [exc |-> NoExc, id |-> None, reqs |-> reqs,
                  prints |-> <<Line("An error occurred", exc)>>]
            ELSE [exc |-> exc, id |-> None, reqs |-> reqs, prints |-> <<>>]
        k == MatchIndex(listResp.items, name)
    IN  IF listResp.exc # NoExc THEN except(listResp.exc, <<list>>)
        ELSE IF k # 0
        THEN [exc |-> NoExc, id |-> listResp.items[k].id, reqs |-> <<list>>, prints |-> <<>>]
        ELSE IF "TIMEZONE" \notin ModuleGlobals THEN except("NameError", <<list>>)
        ELSE IF insertResp.exc # NoExc THEN except(insertResp.exc, <<list, insert>>)
        ELSE [exc |-> NoExc, id |-> insertResp.id, reqs |-> <<list, insert>>, prints |-> <<>>]

\* if not calendar_id
Falsy_never(id) == FALSE

Falsy(id) == id = None \/ id = ""

(***************************************************************************)
(* create_event.                                                           *)
(***************************************************************************)
\* datetime.replace(tzinfo=ZoneInfo(tz)).isoformat(): the wall-clock fields
\* with seconds 0, and the zone whose offset the text carries.
isoformat(dt, tz) ==
    [date |-> <<dt.year, dt.month, dt.day>>, time |-> <<dt.hour, dt.minute, 0>>, tzinfo |-> tz]

EventBody(event_data, tz) ==
    LET event == [summary |-> event_data["title"],
                  description |-> event_data["description"],
                  start |-> [dateTime |-> isoformat(strptime(event_data["event start time"]), tz),
                             timeZone |-> tz],
                  end |-> [dateTime |-> isoformat(strptime(event_data["event end time"]), tz),
                           timeZone |-> tz]]
    IN  IF "attendees" \in DOMAIN event_data
        THEN event @@ ("attendees" :>
                 [k \in 1..Len(event_data["attendees"].items) |->
                     [email |-> event_data["attendees"].items[k]]])
        ELSE event

InsertEventResponses == {[exc |-> NoExc, htmlLink |-> "https://calendar/event"],
                         [exc |-> "HttpError", htmlLink |-> None]}

\* The try block: the exception it raises (NoExc: none) and the requests it
\* issued before that.  index is the place of event_data in the events list.
create_event_try(calendarId, event_data, tz, index, resp) ==
    LET raise(exc) == [exc |-> exc, reqs |-> <<>>, link |-> None]
    IN  IF tz \notin KnownZones THEN raise("ZoneInfoNotFoundError")
        ELSE IF "event start time" \notin DOMAIN event_data THEN raise("KeyError")
        ELSE IF ~strptime(event_data["event start time"]).ok THEN raise("ValueError")
        ELSE IF "event end time" \notin DOMAIN event_data THEN raise("KeyError")
        ELSE IF ~strptime(event_data["event end time"]).ok THEN raise("ValueError")
        ELSE IF "title" \notin DOMAIN event_data THEN raise("KeyError")
        ELSE IF "description" \notin DOMAIN event_data THEN raise("KeyError")
        ELSE IF "attendees" \in DOMAIN event_data /\ event_data["attendees"].type # "list"
        THEN raise("TypeError")
        ELSE [exc |-> resp.exc,
              reqs |-> <<Request("events.insert", calendarId, EventBody(event_data, tz), index)>>,
              link |-> resp.htmlLink]

\* The except clauses of create_event.
create_event_except_KeyError_only(exc) ==
    IF IsInstance(exc, "KeyError") THEN [caught |-> TRUE, text |-> "Missing required field"]
    ELSE [caught |-> FALSE, text |-> ""]

create_event_except(exc) ==
    IF IsInstance(exc, "KeyError") THEN [caught |-> TRUE, text |-> "Missing required field"]
    ELSE IF IsInstance(exc, "HttpError") THEN [caught |-> TRUE, text |-> "An error occurred"]
    ELSE IF IsInstance(exc, "Exception") THEN [caught |-> TRUE, text |-> "Unexpected error"]
    ELSE [caught |-> FALSE, text |-> ""]

\* What create_event does with the outcome t of its try block.  exc: what
\* leaves create_event; raised: what the try block raised.
create_event_finish(t) ==
    LET h == create_event_except(t.exc)
    IN  IF t.exc = NoExc
        THEN [exc |-> NoExc, raised |-> NoExc, reqs |-> t.reqs,
              prints |-> <<Line("Event created", t.link)>>]
        ELSE IF h.caught
        THEN [exc |-> NoExc, raised |-> t.exc, reqs |-> t.reqs, prints |-> <<Line(h.text, t.exc)>>]
        ELSE [exc |-> t.exc, raised |-> t.exc, reqs |-> t.reqs, prints |-> <<>>]

create_event(calendarId, event_data, tz, index, resp) ==
    CHOOSE r \in {create_event_finish(t) :
                     t \in {create_event_try(calendarId, event_data, tz, index, resp)}} : TRUE

\* for event_data in data['events']: the event of the k-th iteration.
EventAtReversed(events, k) == events[Len(events) + 1 - k]

EventAt(events, k) == events[k]

(***************************************************************************)
(* main: one action per statement of its try block.  The record a call     *)
(* returns is bound by \E over a singleton, so that it is computed once.    *)
(***************************************************************************)
\* The except clauses of main.
main_except_no_catch_all(exc) ==
    IF IsInstance(exc, "FileNotFoundError") THEN [caught |-> TRUE, text |-> ""]
    ELSE IF IsInstance(exc, "ValueError") THEN [caught |-> TRUE, text |-> "Validation Error"]
    ELSE [caught |-> FALSE, text |-> ""]

main_except(exc) ==
    IF IsInstance(exc, "FileNotFoundError") THEN [caught |-> TRUE, text |-> ""]
    ELSE IF IsInstance(exc, "ValueError") THEN [caught |-> TRUE, text |-> "Validation Error"]
    ELSE IF IsInstance(exc, "Exception") THEN [caught |-> TRUE, text |-> "An unexpected error occurred"]
    ELSE [caught |-> FALSE, text |-> ""]

\* An exception reaches main's handlers: the matching clause prints and main
\* returns; with no matching clause the exception leaves main.
Except(exc, detail, prints) ==
    \E h \in {main_except(exc)} :
        IF h.caught
        THEN /\ printed' = printed \o prints \o <<Line(h.text, detail)>>
             /\ pc' = "returned"
        ELSE /\ printed' = printed \o prints
             /\ pc' = "escaped"

NoValidation == [exc |-> NoExc, msg |-> NoMessage, call |-> Returned, at |-> 0]

Init ==
    /\ pc = "load"
    /\ yamlFile \in YamlFiles
    /\ tokenFile \in TokenFiles
    /\ data = PyNone
    /\ validation = NoValidation
    /\ calendar_name = None
    /\ timezone_str = None
    /\ creds = NoCreds
    /\ tokenWrites = 0
    /\ authPath = None
    /\ service = NoService
    /\ calendars = [exc |-> NoExc, items |-> <<>>]
    /\ calendar_id = None
    /\ i = 0
    /\ requests = <<>>
    /\ outcomes = <<>>
    /\ printed = <<>>

\* data = load_yaml_file(YAML_FILE_PATH)
LoadYaml ==
    /\ pc = "load"
    /\ \E r \in {load_yaml_file(yamlFile)} :
           IF r.exc # NoExc
           THEN /\ Except(r.exc, r.msg, <<>>)
                /\ UNCHANGED data
           ELSE /\ data' = r.value
                /\ pc' = "validate"
                /\ UNCHANGED printed
    /\ UNCHANGED <<yamlFile, validation, calendar_name, timezone_str, tokenFile, creds,
                   tokenWrites, authPath, service, calendars, calendar_id, i,
                   requests, outcomes>>

\* validate_yaml_data(data); calendar_name = data.get(...); timezone_str = data.get(...)
ValidateYaml ==
    /\ pc = "validate"
    /\ \E r \in {validate_yaml_data(data)} :
           /\ validation' = r
           /\ IF r.exc # NoExc
              THEN /\ Except(r.exc, r.msg, <<>>)
                   /\ UNCHANGED <<calendar_name, timezone_str>>
              ELSE /\ calendar_name' = get(data, "calendar_name", "Work")
                   /\ timezone_str' = get(data, "timezone", "America/New_York")
                   /\ pc' = "auth"
                   /\ UNCHANGED printed
    /\ UNCHANGED <<yamlFile, data, tokenFile, creds, tokenWrites, authPath, service,
                   calendars, calendar_id, i, requests, outcomes>>

\* service = authenticate_google()
AuthenticateGoogle ==
    /\ pc = "auth"
    /\ \E refreshResp \in RefreshResponses, flowResp \in FlowResponses :
          \E r \in {authenticate_google(tokenFile, refreshResp, flowResp)} :
              /\ tokenFile' = r.file
              /\ tokenWrites' = tokenWrites + r.writes
              /\ authPath' = r.path
              /\ creds' = r.creds
              /\ IF r.exc # NoExc
                 THEN /\ Except(r.exc, NoMessage, <<>>)
                      /\ UNCHANGED service
                 ELSE /\ service' = build(r.creds)
                      /\ pc' = "resolve"
                      /\ UNCHANGED printed
    /\ UNCHANGED <<yamlFile, data, validation, calendar_name, timezone_str, calendars,
                   calendar_id, i, requests, outcomes>>

\* calendar_id = get_or_create_calendar(service, calendar_name)
\* if not calendar_id: print(...); return
GetOrCreateCalendar ==
    /\ pc = "resolve"
    /\ \E listResp \in ListResponses, insertResp \in InsertResponses :
          \E r \in {get_or_create_calendar(calendar_name, listResp, insertResp)} :
              /\ calendars' = listResp
              /\ requests' = requests \o r.reqs
              /\ IF r.exc # NoExc
                 THEN /\ Except(r.exc, NoMessage, r.prints)
                      /\ UNCHANGED <<calendar_id, i>>
                 ELSE /\ calendar_id' = r.id
                      /\ IF Falsy(r.id)
                         THEN /\ printed' = printed \o r.prints \o
                                     <<Line("Failed to find or create the calendar.", NoMessage)>>
                              /\ pc' = "returned"
                              /\ UNCHANGED i
                         ELSE /\ printed' = printed \o r.prints
                              /\ pc' = "loop"
                              /\ i' = 1
    /\ UNCHANGED <<yamlFile, data, validation, calendar_name, timezone_str, tokenFile,
                   creds, tokenWrites, authPath, service, outcomes>>

\* One iteration of: for event_data in data['events']: create_event(...)
CreateEvent ==
    /\ pc = "loop"
    /\ i <= Len(data.v["events"].items)
    /\ \E resp \in InsertEventResponses :
          \E r \in {create_event(calendar_id, EventAt(data.v["events"].items, i),
                                  timezone_str, i, resp)} :
              /\ requests' = requests \o r.reqs
              /\ outcomes' = Append(outcomes, IF r.raised = NoExc THEN "created" ELSE r.raised)
              /\ IF r.exc # NoExc
                 THEN /\ Except(r.exc, NoMessage, r.prints)
                      /\ UNCHANGED i
                 ELSE /\ printed' = printed \o r.prints
                      /\ i' = i + 1
                      /\ pc' = "loop"
    /\ UNCHANGED <<yamlFile, data, validation, calendar_name, timezone_str, tokenFile,
                   creds, tokenWrites, authPath, service, calendars, calendar_id>>

\* The loop is exhausted: main returns.
MainReturn ==
    /\ pc = "loop"
    /\ i > Len(data.v["events"].items)
    /\ pc' = "returned"
    /\ UNCHANGED <<yamlFile, data, validation, calendar_name, timezone_str, tokenFile,
                   creds, tokenWrites, authPath, service, calendars, calendar_id, i,
                   requests, outcomes, printed>>

Next ==
    \/ LoadYaml
    \/ ValidateYaml
    \/ AuthenticateGoogle
    \/ GetOrCreateCalendar
    \/ CreateEvent
    \/ MainReturn

Spec == Init /\ [][Next]_vars

\* main is ordinary sequential code: whenever a statement can run, it does.
FairSpec == Spec /\ WF_vars(Next)

(***************************************************************************)
(* Properties.                                                             *)
(***************************************************************************)
\* What the run was given and what it did, read off the state.
ConfigIsDict == yamlFile.exists /\ yamlFile.content.type = "dict"
ConfigKeys == IF ConfigIsDict THEN DOMAIN yamlFile.content.v ELSE {}
ConfigHasEventList == "events" \in ConfigKeys /\ yamlFile.content.v["events"].type = "list"
ConfigEvents == IF ConfigHasEventList THEN yamlFile.content.v["events"].items ELSE <<>>
MissingFields(e) == RequiredKeys \ DOMAIN e
EventIsValid(e) ==
    /\ MissingFields(e) = {}
    /\ strptime(e["event start time"]).ok
    /\ strptime(e["event end time"]).ok
ConfigInvalid ==
    \/ ~ConfigIsDict
    \/ ~({"calendar_name", "timezone"} \subseteq ConfigKeys)
    \/ ~ConfigHasEventList
    \/ \E k \in 1..Len(ConfigEvents) : ~EventIsValid(ConfigEvents[k])
AuthenticationFailed == authPath # None /\ service = NoService
RequestsOf(op) == SelectSeq(requests, LAMBDA r : r.op = op)
ResolveRan == pc \in {"loop", "returned", "escaped"} /\ Len(requests) >= 1
NameMatches == \E k \in 1..Len(calendars.items) : calendars.items[k].summary = calendar_name
CreatedLines == SelectSeq(printed, LAMBDA l : l.text = "Event created")
FailureLines == SelectSeq(printed, LAMBDA l : l.text # "Event created")
FailedEvents == {k \in 1..Len(outcomes) : outcomes[k] # "created"}

\* C1: when the config cannot be loaded, validation raises (also on the last
\* event only), or authentication fails, the run issues no provider request.
C1_NoRequestAfterEarlyFailure ==
    (ConfigInvalid \/ AuthenticationFailed) => requests = <<>>

C1_Witness ==
    /\ pc = "returned"
    /\ Len(ConfigEvents) = 2
    /\ EventIsValid(ConfigEvents[1])
    /\ ~EventIsValid(ConfigEvents[2])
    /\ validation.exc = "ValueError"
    /\ validation.at = 2
    /\ requests = <<>>

\* C2: when no listed calendar has the requested name, the resolver issues
\* exactly one insert-calendar request, with that name, and returns the
\* identifier the provider assigned.
C2_CreatesCalendarWhenAbsent ==
    (ResolveRan /\ calendars.exc = NoExc /\ ~NameMatches) =>
        /\ Len(RequestsOf("calendars.insert")) = 1
        /\ RequestsOf("calendars.insert")[1].body.summary = calendar_name
        /\ \E resp \in InsertResponses : resp.exc = NoExc /\ calendar_id = resp.id

\* C3: a config that lacks calendar_name or timezone and is otherwise valid
\* passes validation and runs on with "Work" and "America/New_York".
C3_DefaultsApplied ==
    ( /\ ConfigIsDict
      /\ ~({"calendar_name", "timezone"} \subseteq ConfigKeys)
      /\ ConfigHasEventList
      /\ \A k \in 1..Len(ConfigEvents) : EventIsValid(ConfigEvents[k])
      /\ pc \notin {"load", "validate"} ) =>
        /\ validation.exc = NoExc
        /\ calendar_name = get(yamlFile.content, "calendar_name", "Work")
        /\ timezone_str = get(yamlFile.content, "timezone", "America/New_York")

\* C4: when exactly one event of a batch of N fails inside create_event,
\* create_event has still run for all N events and N-1 were inserted.
C4_OneFailureIsolated ==
    (pc \in {"returned", "escaped"} /\ Cardinality(FailedEvents) = 1) =>
        /\ Len(outcomes) = Len(ConfigEvents)
        /\ Len(CreatedLines) = Len(ConfigEvents) - 1

C4_Witness ==
    /\ pc = "returned"
    /\ Len(ConfigEvents) >= 2
    /\ FailedEvents = {1}
    /\ outcomes[1] = "HttpError"
    /\ Len(CreatedLines) = Len(ConfigEvents) - 1

\* C5: when some listed calendar has exactly the requested name, the resolver
\* returns the id of the first such entry and issues no insert-calendar
\* request.
C5_FirstMatchReturned ==
    (ResolveRan /\ calendars.exc = NoExc /\ NameMatches) =>
        /\ \E k \in 1..Len(calendars.items) :
              /\ calendars.items[k].summary = calendar_name
              /\ \A j \in 1..(k - 1) : calendars.items[j].summary # calendar_name
              /\ calendar_id = calendars.items[k].id
        /\ RequestsOf("calendars.insert") = <<>>

C5_Witness ==
    /\ pc = "loop"
    /\ calendars.items = <<[summary |-> "Team", id |-> "c2"], [summary |-> "Team", id |-> "c1"]>>
    /\ calendar_id = "c2"

\* C6: when calendar resolution yields no identifier, for whatever reason,
\* main issues no insert-event request and returns after printing a failure;
\* on a provider error the resolver returns None instead of raising, and
\* main prints that it failed to find or create the calendar.
C6_ResolutionFailureAborts ==
    (ResolveRan /\ calendar_id = None) =>
        /\ RequestsOf("events.insert") = <<>>
        /\ outcomes = <<>>
        /\ pc = "returned"
        /\ FailureLines # <<>>
        /\ IsInstance(calendars.exc, "HttpError") =>
              /\ Len(printed) = 2
              /\ printed[1].text = "An error occurred"
              /\ printed[2].text = "Failed to find or create the calendar."

C6_Witness ==
    /\ pc = "returned"
    /\ calendars.exc = "HttpError"
    /\ Len(ConfigEvents) >= 1
    /\ calendar_id = None
    /\ printed[Len(printed)].text = "Failed to find or create the calendar."

\* C7 as claimed: authenticate_google writes the credential it returns to
\* token.json on every path.
C7_AlwaysWritesToken ==
    service # NoService => tokenWrites >= 1

\* C7 as amended: it writes the credential it returns when it refreshed the
\* token or ran the interactive flow; when it loaded a valid saved token it
\* writes nothing, and token.json holds the returned credential either way.
C7_WritesTokenUnlessLoadedValid ==
    service # NoService =>
        /\ service.credentials = creds
        /\ tokenFile = [exists |-> TRUE, content |-> creds]
        /\ authPath = "loaded" => tokenWrites = 0
        /\ authPath \in {"refresh", "flow"} => tokenWrites = 1

C7_Witness ==
    /\ service # NoService
    /\ authPath = "refresh"
    /\ tokenWrites = 1
    /\ tokenFile.content.origin = "refreshed"

\* C8: insert-event requests go out in the order of the config's events, at
\* most one per event, each carrying its own event, and all of them after
\* the list-calendars request and any insert-calendar request.
C8_EventsInsertedInOrder ==
    \A b \in 1..Len(requests) :
        requests[b].op = "events.insert" =>
            /\ requests[b].index \in 1..Len(ConfigEvents)
            /\ requests[b].body.summary = ConfigEvents[requests[b].index]["title"]
            /\ requests[b].calendarId = calendar_id
            /\ requests[1].op = "calendarList.list"
            /\ \A a \in 1..(b - 1) :
                  IF requests[a].op = "events.insert"
                  THEN requests[a].index < requests[b].index
                  ELSE TRUE
            /\ \A c \in (b + 1)..Len(requests) : requests[c].op = "events.insert"

C8_Witness ==
    /\ pc = "returned"
    /\ Len(RequestsOf("events.insert")) = 2
    /\ RequestsOf("events.insert")[1].body.summary = "Retro"
    /\ RequestsOf("events.insert")[2].body.summary = "Standup"

\* C9: every run of main returns; no exception leaves it; and a run that did
\* not create every event has printed a failure message by then.
AllEventsCreated ==
    /\ ~ConfigInvalid
    /\ Len(outcomes) = Len(ConfigEvents)
    /\ FailedEvents = {}
    /\ Len(CreatedLines) = Len(ConfigEvents)

C9_MainAlwaysReturns ==
    /\ <>(pc = "returned")
    /\ [](pc # "escaped")
    /\ []((pc = "returned" /\ ~AllEventsCreated) => FailureLines # <<>>)

C9_Witness ==
    /\ pc = "returned"
    /\ ~AllEventsCreated
    /\ printed[Len(printed)].text = "An unexpected error occurred"

\* C10: for the event on which validation stopped: if it lacks required
\* fields, the error lists all of them, in the order of
\* REQUIRED_EVENT_FIELDS, and no date was parsed; if it has them all and its
\* start (else its end) time does not parse, the error names that field and
\* the event's title.  main prints that error.
C10_ValidateEventReportsAllMissing ==
    (validation.at > 0 /\ ~EventIsValid(ConfigEvents[validation.at])) =>
        LET e == ConfigEvents[validation.at]
            m == validation.call.msg
        IN  /\ validation.call.exc = "ValueError"
            /\ printed = <<Line("Validation Error", m)>>
            /\ IF MissingFields(e) # {}
               THEN /\ {m.fields[k] : k \in 1..Len(m.fields)} = MissingFields(e)
                    /\ \A a, b \in 1..Len(m.fields) :
                          a < b => \E x, y \in 1..Len(REQUIRED_EVENT_FIELDS) :
                                      /\ x < y
                                      /\ REQUIRED_EVENT_FIELDS[x] = m.fields[a]
                                      /\ REQUIRED_EVENT_FIELDS[y] = m.fields[b]
                    /\ validation.call.parsed = <<>>
               ELSE /\ m.title = e["title"]
                    /\ m.field = IF ~strptime(e["event start time"]).ok
                                 THEN "event start time" ELSE "event end time"

C10_Witness ==
    /\ pc = "returned"
    /\ validation.at = 2
    /\ validation.call.msg.fields = <<"title", "event end time">>
    /\ validation.call.parsed = <<>>

====
